---------------------------- MODULE Spec2Model ----------------------------
(***************************************************************************)
(* A model of the plexo-payments relay: the service authentication filter  *)
(* with its fixed-window rate limiter and periodic sweep (middleware.rs),  *)
(* the process-wide signing identity and its one-time initialization, the  *)
(* JSON canonicalizer and the signing of envelopes (crypto.rs), the relay  *)
(* operations with their cleaning of the request (plexo_service.rs), the   *)
(* formatter of amounts (common.rs) and the start of the server (main.rs). *)
(*                                                                         *)
(* Text is modelled as a sequence of byte values, so that key ordering,    *)
(* quoting and concatenation are computed the way the code computes them.  *)
(* Option<T> is modelled as a sequence of length at most one: <<>> is None *)
(* and <<x>> is Some(x).                                                   *)
(***************************************************************************)
EXTENDS Integers, Sequences, FiniteSets, TLC

(***************************************************************************)
(* Bounds of the model.                                                    *)
(***************************************************************************)
\* Requests that arrive during one run.
NumRequests == 3
\* Relay operations called during one run.
NumCalls == 2
\* The clock runs from 0 to MaxTime.
MaxTime == 4
\* with_rate_limit(max_requests, window_seconds), scaled down.
max_requests == 2
window == 2
\* Calls of init() a thread makes during one run.
MaxInitCalls == 2
\* Threads other than main that call into crypto.rs.
NumAuxThreads == 1
\* Pairs of an object and elements of an array in the canonicalizer's inputs.
MaxWidth == 2
\* Digits after the decimal point in the amounts given to the formatter.
MaxDecimals == 4

(***************************************************************************)
(* Option values.                                                          *)
(***************************************************************************)
None == << >>
Some(x) == << x >>
IsSome(o) == Len(o) = 1
IsNone(o) == Len(o) = 0
Unwrap(o) == o[1]

(***************************************************************************)
(* Bytes of the characters the code writes.                                *)
(***************************************************************************)
QUOTE == 34
COMMA == 44
COLON == 58
LBRACKET == 91
BACKSLASH == 92
RBRACKET == 93
LBRACE == 123
RBRACE == 125
DIGIT0 == 48
POINT == 46

\* "null", "true", "false" as Value::to_string writes them.
NullText == << 110, 117, 108, 108 >>
TrueText == << 116, 114, 117, 101 >>
FalseText == << 102, 97, 108, 115, 101 >>

(***************************************************************************)
(* serde_json::Value.  An object is the sequence of its (key, value) pairs *)
(* in the map's iteration order, with distinct keys.                       *)
(***************************************************************************)
JNull == [t |-> "null"]
JBool(b) == [t |-> "bool", b |-> b]
JNum(n) == [t |-> "num", n |-> n]
JStr(s) == [t |-> "str", s |-> s]
JArr(items) == [t |-> "arr", items |-> items]
JObj(kv) == [t |-> "obj", kv |-> kv]
\* A Number that holds an f64: the decimal that writes it, as its integer
\* part and the digits of its fraction without trailing zeros.
JF64(int, frac) == [t |-> "f64", int |-> int, frac |-> frac]

is_null(v) == v.t = "null"

\* Byte-wise lexicographic order of two texts: the order of String::cmp,
\* which keys.sort() uses.
RECURSIVE LexLess(_, _)
LexLess(a, b) ==
    IF Len(b) = 0 THEN FALSE
    ELSE IF Len(a) = 0 THEN TRUE
    ELSE IF a[1] # b[1] THEN a[1] < b[1]
    ELSE LexLess(Tail(a), Tail(b))

\* The keys in the insertion order of the map: a sort that is left out.
KeysUnsorted(kv) == [i \in 1..Len(kv) |-> kv[i][1]]

\* let mut keys = map.keys().collect(); keys.sort();
SortedKeys(kv) == SortSeq([i \in 1..Len(kv) |-> kv[i][1]], LexLess)

\* &map[key]
MapGet(kv, key) == kv[CHOOSE i \in 1..Len(kv) : kv[i][1] = key][2]

\* The decimal digits of a natural number.
RECURSIVE Digits(_)
Digits(n) ==
    IF n < 10 THEN << DIGIT0 + n >>
    ELSE Digits(n \div 10) \o << DIGIT0 + (n % 10) >>

\* serde_json's escaping of a string's contents (quote and backslash; the
\* model's alphabet holds no control characters).
RECURSIVE EscapeJson(_)
EscapeJson(s) ==
    IF Len(s) = 0 THEN << >>
    ELSE (IF s[1] = QUOTE \/ s[1] = BACKSLASH
            THEN << BACKSLASH, s[1] >> ELSE << s[1] >>)
         \o EscapeJson(Tail(s))

\* format!("\"{}\"", s): the contents between quotes, as they are.
QuoteRaw(s) == << QUOTE >> \o s \o << QUOTE >>

\* Value::to_string of a value that is no object and no array.
ScalarToString(v) ==
    CASE v.t = "null" -> NullText
      [] v.t = "bool" -> (IF v.b THEN TrueText ELSE FalseText)
      [] v.t = "num" -> Digits(v.n)
      [] v.t = "f64" ->
            Digits(v.int) \o << POINT >>
                \o (IF Len(v.frac) = 0 THEN << DIGIT0 >>
                    ELSE [i \in 1..Len(v.frac) |-> DIGIT0 + v.frac[i]])
      [] v.t = "str" -> << QUOTE >> \o EscapeJson(v.s) \o << QUOTE >>

\* CryptoService::canonize_json.  ObjectBody walks the sorted keys,
\* InnerArray is the array written in place for an array that is the value
\* of a key (null items skipped), OuterArray is the Value::Array branch,
\* which is also where an array inside an array goes.
RECURSIVE canonize_json(_)
RECURSIVE ObjectBody(_, _, _)
RECURSIVE InnerArray(_, _, _)
RECURSIVE OuterArray(_, _, _)

ObjectBody(kv, keys, is_first) ==
    IF Len(keys) = 0 THEN << >>
    ELSE LET key == keys[1]
             val == MapGet(kv, key)
         IN IF is_null(val) THEN ObjectBody(kv, Tail(keys), is_first)
            ELSE (IF is_first THEN << >> ELSE << COMMA >>)
                 \o QuoteRaw(key) \o << COLON >>
                 \o (CASE val.t = "obj" -> canonize_json(val)
                       [] val.t = "arr" ->
                            << LBRACKET >> \o InnerArray(val.items, 1, TRUE)
                                \o << RBRACKET >>
                       [] val.t = "str" -> QuoteRaw(val.s)
                       [] OTHER -> ScalarToString(val))
                 \o ObjectBody(kv, Tail(keys), FALSE)

InnerArray(arr, i, is_first_item) ==
    IF i > Len(arr) THEN << >>
    ELSE LET item == arr[i]
         IN IF is_null(item) THEN InnerArray(arr, i + 1, is_first_item)
            ELSE (IF is_first_item THEN << >> ELSE << COMMA >>)
                 \o (CASE item.t = "obj" -> canonize_json(item)
                       [] item.t = "arr" -> canonize_json(item)
                       [] item.t = "str" -> QuoteRaw(item.s)
                       [] OTHER -> ScalarToString(item))
                 \o InnerArray(arr, i + 1, FALSE)

OuterArray(arr, i, is_first) ==
    IF i > Len(arr) THEN << >>
    ELSE LET item == arr[i]
         IN (IF is_first THEN << >> ELSE << COMMA >>)
            \o (CASE item.t = "obj" -> canonize_json(item)
                  [] item.t = "arr" -> canonize_json(item)
                  [] item.t = "str" -> QuoteRaw(item.s)
                  [] OTHER -> ScalarToString(item))
            \o OuterArray(arr, i + 1, FALSE)

canonize_json(value) ==
    CASE value.t = "obj" ->
            << LBRACE >> \o ObjectBody(value.kv, SortedKeys(value.kv), TRUE)
                \o << RBRACE >>
      [] value.t = "arr" ->
            << LBRACKET >> \o OuterArray(value.items, 1, TRUE) \o << RBRACKET >>
      [] OTHER -> ScalarToString(value)


(***************************************************************************)
(* The state of the process.                                               *)
(***************************************************************************)
VARIABLES
    now,            \* the clock: Instant::now(), Utc::now(), in seconds
    INIT,           \* the Once of crypto.rs: new, running, done, poisoned
    CRYPTO_SERVICE, \* Option<CryptoService> behind the Mutex
    ith,            \* per thread: where its call of init() stands
    attempts,       \* history: how many times the call_once closure ran
    failed,         \* history: the closure ran and CryptoService::new failed
    server,         \* main(): boot, serving, crashed
    storage,        \* rate_limit.storage: service name -> (count, timestamp)
    lockHolders,    \* the tasks holding the write lock of the entry's shard
    running,        \* per worker thread: Option of the task it is running
    req,            \* per request: where its filter future stands
    op,             \* per relay operation: where its call stands
    sweep,          \* per worker: the cleanup task spawned on it
    admittedIn,     \* history: requests let through per window start
    lastAdmit,      \* history: Option of the time of the last admission
    unswept,        \* history: storage as the requests alone would leave it
    outbound,       \* history: the envelopes posted to the processor
    canonIn,        \* canonicalizer and signing runs: the input value
    canonAlt,       \* the same pairs in another key order, or a second input
    canonOut        \* Option of the two results: canonical strings, signatures

cryptoVars == << INIT, CRYPTO_SERVICE, ith, attempts, failed, server >>
filterVars ==
    << storage, unswept, lockHolders, running, sweep, admittedIn, lastAdmit >>
canonVars == << canonIn, canonAlt, canonOut >>
relayVars == << op, outbound >>
vars == << now, cryptoVars, filterVars, req, relayVars, canonVars >>

(***************************************************************************)
(* Credential loading: CryptoService::new and extract_from_pfx.            *)
(***************************************************************************)
\* What PFX_BASE64 and PFX_PASSWORD hold when the closure reads them:
\* env: both variables are set; b64: the text is base64; io: the temporary
\* file can be written and read; der: the bytes are a PKCS#12 container;
\* pw: the password opens it; cert, key: what the bundle holds; digest: the
\* digest of the certificate can be computed.
Bundle(env, b64, io, der, pw, cert, key, digest) ==
    [env |-> env, b64 |-> b64, io |-> io, der |-> der, pw |-> pw,
     cert |-> cert, key |-> key, digest |-> digest]

GoodBundle(c, k) == Bundle(TRUE, TRUE, TRUE, TRUE, TRUE, Some(c), Some(k), TRUE)

Bundles ==
    { GoodBundle(1, 1), GoodBundle(2, 2),
      Bundle(FALSE, TRUE, TRUE, TRUE, TRUE, Some(1), Some(1), TRUE),
      Bundle(TRUE, FALSE, TRUE, TRUE, TRUE, Some(1), Some(1), TRUE),
      Bundle(TRUE, TRUE, FALSE, TRUE, TRUE, Some(1), Some(1), TRUE),
      Bundle(TRUE, TRUE, TRUE, FALSE, TRUE, Some(1), Some(1), TRUE),
      Bundle(TRUE, TRUE, TRUE, TRUE, FALSE, Some(1), Some(1), TRUE),
      Bundle(TRUE, TRUE, TRUE, TRUE, TRUE, None, Some(1), TRUE),
      Bundle(TRUE, TRUE, TRUE, TRUE, TRUE, Some(1), None, TRUE),
      Bundle(TRUE, TRUE, TRUE, TRUE, TRUE, Some(1), Some(1), FALSE) }

\* The upper-case hex SHA-1 digest of a certificate: one text per
\* certificate, different certificates giving different texts.
Fingerprint(cert) == << 70, 80, DIGIT0 + cert >>

Ok(v) == [ok |-> TRUE, val |-> Some(v), err |-> "none"]
Err(e) == [ok |-> FALSE, val |-> None, err |-> e]

\* A loader that takes what the bundle holds without asking for both parts.
extract_lenient(b) ==
    IF ~b.io THEN Err("IoError")
    ELSE IF ~b.der \/ ~b.pw THEN Err("InitializationError")
    ELSE Ok([private_key |-> b.key,
             fingerprint |-> IF IsSome(b.cert) THEN Some(Fingerprint(Unwrap(b.cert)))
                             ELSE None])

\* CryptoService::extract_from_pfx
extract_from_pfx(b) ==
    IF ~b.io THEN Err("IoError")
    ELSE IF ~b.der THEN Err("InitializationError")
    ELSE IF ~b.pw THEN Err("InitializationError")
    ELSE IF IsNone(b.cert) THEN Err("InitializationError")
    ELSE IF IsNone(b.key) THEN Err("InitializationError")
    ELSE IF ~b.digest THEN Err("OpenSslError")
    ELSE Ok([private_key |-> b.key,
             fingerprint |-> Some(Fingerprint(Unwrap(b.cert)))])

\* CryptoService::new
CryptoServiceNew(b) ==
    IF ~b.b64 THEN Err("InitializationError")
    ELSE IF ~b.io THEN Err("IoError")
    ELSE extract_from_pfx(b)

(***************************************************************************)
(* init(): INIT.call_once around the loading, then the result.             *)
(***************************************************************************)
Main == << "main", 0 >>
AuxThreads == { << "aux", i >> : i \in 1..NumAuxThreads }
Threads == {Main} \cup AuxThreads

IdleThread ==
    [pc |-> "idle", initialized |-> FALSE, bundle |-> None, service |-> None,
     result |-> "none", calls |-> 0, afterSuccess |-> FALSE, ranClosure |-> FALSE]

Alive == server # "crashed"

\* A Once that lets the closure run again after a failed attempt.
OnceAfterFailureRetry == "new"

\* The state of the Once when the closure has returned, whatever it did.
OnceAfterFailure == "done"

\* if initialized { Ok(()) } else { Err(InitializationError) }
InitResult(initialized, stored) ==
    IF initialized THEN "Ok" ELSE "InitializationError"

\* init() is entered: let mut initialized = false.
InitCall(t) ==
    /\ Alive
    /\ ith[t].pc = "idle"
    /\ ith[t].calls < MaxInitCalls
    /\ t = Main => (server = "boot" /\ ith[t].calls = 0)
    /\ ith' = [ith EXCEPT ![t] =
                  [@ EXCEPT !.pc = "call_once", !.initialized = FALSE,
                            !.result = "none", !.ranClosure = FALSE,
                            !.afterSuccess = IsSome(CRYPTO_SERVICE)]]
    /\ UNCHANGED << now, INIT, CRYPTO_SERVICE, attempts, failed, server,
                    filterVars, req, relayVars, canonVars >>

\* INIT.call_once: the first caller runs the closure, which reads the
\* environment (a missing variable panics and poisons the Once); a caller
\* that finds the Once done skips the closure; one that finds it running
\* waits; one that finds it poisoned panics.
CallOnce(t) ==
    /\ Alive
    /\ ith[t].pc = "call_once"
    /\ \/ /\ INIT = "new"
          /\ \E b \in Bundles :
                IF b.env
                THEN /\ INIT' = "running"
                     /\ ith' = [ith EXCEPT ![t] =
                                   [@ EXCEPT !.pc = "closure", !.bundle = Some(b),
                                             !.ranClosure = TRUE]]
                ELSE /\ INIT' = "poisoned"
                     /\ ith' = [ith EXCEPT ![t] =
                                   [@ EXCEPT !.pc = "idle", !.result = "panic",
                                             !.ranClosure = TRUE,
                                             !.calls = @ + 1]]
          /\ attempts' = attempts + 1
       \/ /\ INIT = "done"
          /\ ith' = [ith EXCEPT ![t] = [@ EXCEPT !.pc = "return"]]
          /\ UNCHANGED << INIT, attempts >>
       \/ /\ INIT = "poisoned"
          /\ ith' = [ith EXCEPT ![t] =
                        [@ EXCEPT !.pc = "idle", !.result = "panic", !.calls = @ + 1]]
          /\ UNCHANGED << INIT, attempts >>
    /\ UNCHANGED << now, CRYPTO_SERVICE, failed, server, filterVars, req,
                    relayVars, canonVars >>

\* match CryptoService::new(..): Err(e) is logged and the closure returns.
ClosureNew(t) ==
    /\ Alive
    /\ ith[t].pc = "closure"
    /\ LET r == CryptoServiceNew(Unwrap(ith[t].bundle))
       IN IF r.ok
          THEN /\ ith' = [ith EXCEPT ![t] =
                             [@ EXCEPT !.pc = "store", !.service = r.val]]
               /\ UNCHANGED << INIT, failed >>
          ELSE /\ ith' = [ith EXCEPT ![t] =
                             [@ EXCEPT !.pc = "return", !.bundle = None]]
               /\ INIT' = OnceAfterFailure
               /\ failed' = TRUE
    /\ UNCHANGED << now, CRYPTO_SERVICE, attempts, server, filterVars, req,
                    relayVars, canonVars >>

\* Ok(service): *guard = Some(service); initialized = true.
ClosureStore(t) ==
    /\ Alive
    /\ ith[t].pc = "store"
    /\ CRYPTO_SERVICE' = ith[t].service
    /\ INIT' = "done"
    /\ ith' = [ith EXCEPT ![t] =
                  [@ EXCEPT !.pc = "return", !.initialized = TRUE,
                            !.service = None]]
    /\ UNCHANGED << now, attempts, failed, server, filterVars, req, relayVars,
                    canonVars >>

\* init() returns.
InitReturn(t) ==
    /\ Alive
    /\ ith[t].pc = "return"
    /\ ith' = [ith EXCEPT ![t] =
                  [@ EXCEPT !.pc = "idle", !.calls = @ + 1,
                            !.result = InitResult(ith[t].initialized,
                                                  CRYPTO_SERVICE)]]
    /\ UNCHANGED << now, INIT, CRYPTO_SERVICE, attempts, failed, server,
                    filterVars, req, relayVars, canonVars >>

\* main(): services::crypto::init().expect(..), then the server is built,
\* bound and run.  An Err or a panic ends the process.
MainStart ==
    /\ server = "boot"
    /\ ith[Main].pc = "idle"
    /\ ith[Main].calls = 1
    /\ server' = IF ith[Main].result = "Ok" THEN "serving" ELSE "crashed"
    /\ UNCHANGED << now, INIT, CRYPTO_SERVICE, ith, attempts, failed,
                    filterVars, req, relayVars, canonVars >>


(***************************************************************************)
(* Signing: sign_payload and create_signed_payload.                        *)
(***************************************************************************)
\* "Fingerprint", "Object", "UTCUnixTimeExpiration"
FingerprintKey == << 70, 105, 110, 103, 101, 114, 112, 114, 105, 110, 116 >>
ObjectKey == << 79, 98, 106, 101, 99, 116 >>
ExpirationKey ==
    << 85, 84, 67, 85, 110, 105, 120, 84, 105, 109, 101,
       69, 120, 112, 105, 114, 97, 116, 105, 111, 110 >>

\* 5 * 60
ExpirationSeconds == 300

\* json!({"Fingerprint": .., "Object": payload, "UTCUnixTimeExpiration": ..})
object_to_sign(fingerprint, payload, expiration) ==
    JObj(<< << FingerprintKey, JStr(fingerprint) >>,
            << ObjectKey, payload >>,
            << ExpirationKey, JNum(expiration) >> >>)

\* The RSA/SHA-512 signature of the bytes under the key: a function of the
\* two, different (key, bytes) giving different signatures.
RsaSha512(private_key, data) == << private_key, data >>

\* sign_payload, when the signer accepts the key and the data.
sign_payload(service, payload, clock) ==
    LET expiration == clock + ExpirationSeconds
        canonized_json ==
            canonize_json(object_to_sign(Unwrap(service.fingerprint), payload,
                                         expiration))
    IN [signature |-> RsaSha512(service.private_key, canonized_json),
        expiration |-> expiration]

\* An envelope whose expiration comes from a second, later reading of the
\* clock than the one that was signed.
create_signed_payload_reread(service, payload, clock) ==
    LET signed == sign_payload(service, payload, clock)
    IN [Fingerprint |-> Unwrap(service.fingerprint),
        Object |-> payload,
        UTCUnixTimeExpiration |-> clock + 1 + ExpirationSeconds,
        Signature |-> signed.signature]

\* create_signed_payload
create_signed_payload(service, payload, clock) ==
    LET signed == sign_payload(service, payload, clock)
    IN [Fingerprint |-> Unwrap(service.fingerprint),
        Object |-> payload,
        UTCUnixTimeExpiration |-> signed.expiration,
        Signature |-> signed.signature]

\* An accessor that hands out an identity with no key when none is stored.
get_crypto_service_unsigned(stored) ==
    IF IsSome(stored) THEN Ok(Unwrap(stored))
    ELSE Ok([private_key |-> None, fingerprint |-> Some(<< >>)])

\* get_crypto_service
get_crypto_service(stored) ==
    IF IsSome(stored) THEN Ok(Unwrap(stored))
    ELSE Err("InitializationError")

\* The request bodies relayed, as JSON values after clean_nulls.
Payloads ==
    { JObj(<< << << 98 >>, JNum(1) >>, << << 97 >>, JStr(<< 120 >>) >> >>),
      JObj(<< << << 97 >>, JNum(2) >> >>) }

(***************************************************************************)
(* The service authentication filter.                                      *)
(***************************************************************************)
Requests == 1..NumRequests
\* The worker threads of the HTTP server, each a single-threaded executor.
Workers == {1, 2}
Calls == 1..NumCalls

ReqTask(r) == << "req", r >>
SweepTask(w) == << "sweep", w >>

\* ServiceAuthConfig::new(secret_key, "my-service")
service_name == "my-service"

\* The shared secret, "ABC".
service_key == << 65, 66, 67 >>

\* What a request may carry in the header: nothing, the secret, a proper
\* prefix of it, an extension of it, a value of the same length sharing a
\* prefix with it, one of the same length differing in its first byte, and
\* bytes that are not text.
HeaderValues ==
    { None, Some(service_key), Some(<< 65, 66 >>), Some(<< 65, 66, 67, 68 >>),
      Some(<< 65, 66, 68 >>), Some(<< 68, 66, 67 >>), Some(<< 65, 200, 67 >>) }

\* HeaderValue::to_str: Ok when every byte is a visible ASCII character or
\* a tab.
to_str_ok(bytes) ==
    \A i \in 1..Len(bytes) : bytes[i] = 9 \/ (bytes[i] >= 32 /\ bytes[i] < 127)

\* The accumulator of ct_eq over two slices of the same length.
RECURSIVE CtAcc(_, _, _, _)
CtAcc(a, b, i, x) ==
    IF i > Len(a) THEN x
    ELSE CtAcc(a, b, i + 1, IF a[i] = b[i] THEN x ELSE 0)

\* A comparison over the length of the shorter slice only.
ct_eq_prefix(a, b) ==
    LET n == IF Len(a) < Len(b) THEN Len(a) ELSE Len(b)
    IN CtAcc(SubSeq(a, 1, n), SubSeq(b, 1, n), 1, 1)

\* key_bytes.ct_eq(&config.service_key).unwrap_u8()
ct_eq(a, b) ==
    IF Len(a) # Len(b) THEN 0 ELSE CtAcc(a, b, 1, 1)

\* The byte comparisons of an equality that stops at the first mismatch.
ct_eq_work_early(a, b) ==
    IF Len(a) # Len(b) THEN 0
    ELSE IF a = b THEN Len(a)
    ELSE CHOOSE i \in 1..Len(a) : a[i] # b[i] /\ \A j \in 1..(i - 1) : a[j] = b[j]

\* The byte comparisons ct_eq makes: one per byte of slices of the same
\* length, whatever the bytes are.
RECURSIVE CtSteps(_, _, _)
CtSteps(a, b, i) ==
    IF i > Len(a) THEN 0 ELSE 1 + CtSteps(a, b, i + 1)

ct_eq_work(a, b) ==
    IF Len(a) # Len(b) THEN 0 ELSE CtSteps(a, b, 1)

\* A check that lets a value through when it cannot be read as text.
key_is_text_lenient(bytes) == TRUE

\* service_key.to_str() is Ok
key_is_text(bytes) == to_str_ok(bytes)

\* now.duration_since(earlier), which is zero when earlier is later.
duration_since(later, earlier) ==
    IF later >= earlier THEN later - earlier ELSE 0

\* A window that is over only after more than `window` has elapsed.
window_elapsed_late(clock, last_request) ==
    duration_since(clock, last_request) > window

\* now.duration_since(*last_request) >= config.rate_limit.window
window_elapsed(clock, last_request) ==
    duration_since(clock, last_request) >= window

\* *count >= config.rate_limit.max_requests
limit_reached(count) == count >= max_requests

\* A lock that is shared among the requests: entry() never waits.
can_lock_shared(holders) == TRUE

\* entry() can take the write lock of the shard: nobody holds it.
can_lock(holders) == holders = {}

\* retain() can take the write lock of the shard: nobody holds it.
retain_can_lock(holders) == holders = {}

\* storage.retain(|_, (_, timestamp)| now.duration_since(*timestamp) < window)
retain(map, clock) ==
    [k \in { k \in DOMAIN map : duration_since(clock, map[k].ts) < window }
        |-> map[k]]

NewRequest ==
    [pc |-> "new", worker |-> 0, header |-> None, status |-> 0, calls |-> 0,
     reset |-> FALSE, work |-> 0]

\* The worker's thread is free to poll a task.
WorkerFree(w) == IsNone(running[w])

\* The worker's thread is inside the poll of request r.
Polling(r) == running[req[r].worker] = Some(ReqTask(r))

\* The filter's future returns a response: its poll ends.
Returned(r, status) ==
    [req[r] EXCEPT !.pc = "done", !.status = status, !.worker = 0]

\* A worker accepts a request and polls the filter's future.  Extract:
\* req.headers().get(&config.header_name); None returns 401.
Extract(r) ==
    /\ server = "serving"
    /\ req[r].pc = "new"
    /\ \A q \in Requests : q < r => req[q].pc # "new"
    /\ \E w \in Workers, h \in HeaderValues :
          /\ WorkerFree(w)
          /\ IF IsNone(h)
             THEN /\ req' = [req EXCEPT ![r] =
                                [@ EXCEPT !.pc = "done", !.status = 401,
                                          !.header = h]]
                  /\ UNCHANGED running
             ELSE /\ req' = [req EXCEPT ![r] =
                                [@ EXCEPT !.pc = "validate", !.worker = w,
                                          !.header = h]]
                  /\ running' = [running EXCEPT ![w] = Some(ReqTask(r))]
    /\ UNCHANGED << now, cryptoVars, storage, unswept, lockHolders, sweep,
                    admittedIn, lastAdmit, relayVars, canonVars >>

\* Validate: to_str() failing returns 400, ct_eq(..) != 1 returns 403.
Validate(r) ==
    /\ req[r].pc = "validate"
    /\ Polling(r)
    /\ LET key == Unwrap(req[r].header)
       IN IF ~key_is_text(key)
          THEN /\ req' = [req EXCEPT ![r] = Returned(r, 400)]
               /\ running' = [running EXCEPT ![req[r].worker] = None]
          ELSE IF ct_eq(key, service_key) # 1
          THEN /\ req' = [req EXCEPT ![r] =
                             [Returned(r, 403) EXCEPT
                                 !.work = ct_eq_work(key, service_key)]]
               /\ running' = [running EXCEPT ![req[r].worker] = None]
          ELSE /\ req' = [req EXCEPT ![r] =
                             [@ EXCEPT !.pc = "entry",
                                       !.work = ct_eq_work(key, service_key)]]
               /\ UNCHANGED running
    /\ UNCHANGED << now, cryptoVars, storage, unswept, lockHolders, sweep,
                    admittedIn, lastAdmit, relayVars, canonVars >>

\* storage.entry(service_id).or_insert((0, Instant::now())): the thread
\* waits for the shard's write lock, then holds it through `entry`.
LockEntry(r) ==
    /\ req[r].pc = "entry"
    /\ Polling(r)
    /\ can_lock(lockHolders)
    /\ lockHolders' = lockHolders \cup {ReqTask(r)}
    /\ storage' = IF service_name \in DOMAIN storage THEN storage
                  ELSE (service_name :> [count |-> 0, ts |-> now])
    /\ unswept' = IF service_name \in DOMAIN unswept THEN unswept
                  ELSE (service_name :> [count |-> 0, ts |-> now])
    /\ req' = [req EXCEPT ![r] = [@ EXCEPT !.pc = "window"]]
    /\ UNCHANGED << now, cryptoVars, running, sweep, admittedIn, lastAdmit,
                    relayVars, canonVars >>

\* let now = Instant::now(); the window that is over is reset.
WindowCheck(r) ==
    /\ req[r].pc = "window"
    /\ Polling(r)
    /\ LET e == storage[service_name]
           over == window_elapsed(now, e.ts)
       IN /\ storage' = IF over
                        THEN [storage EXCEPT ![service_name] =
                                 [count |-> 0, ts |-> now]]
                        ELSE storage
          /\ unswept' = IF window_elapsed(now, unswept[service_name].ts)
                        THEN [unswept EXCEPT ![service_name] =
                                 [count |-> 0, ts |-> now]]
                        ELSE unswept
          /\ req' = [req EXCEPT ![r] = [@ EXCEPT !.pc = "limit", !.reset = over]]
    /\ UNCHANGED << now, cryptoVars, lockHolders, running, sweep, admittedIn,
                    lastAdmit, relayVars, canonVars >>

\* A limit check that counts the request before testing the limit, so that
\* a request answered 429 has consumed quota too.
LimitCheckCounting(r) ==
    /\ req[r].pc = "limit"
    /\ Polling(r)
    /\ IF limit_reached(storage[service_name].count)
       THEN /\ req' = [req EXCEPT ![r] = Returned(r, 429)]
            /\ storage' = [storage EXCEPT ![service_name].count = @ + 1]
            /\ lockHolders' = lockHolders \ {ReqTask(r)}
            /\ running' = [running EXCEPT ![req[r].worker] = None]
       ELSE /\ req' = [req EXCEPT ![r] = [@ EXCEPT !.pc = "count"]]
            /\ UNCHANGED << storage, lockHolders, running >>
    /\ UNCHANGED << now, cryptoVars, unswept, sweep, admittedIn, lastAdmit,
                    relayVars, canonVars >>

\* if *count >= max_requests { return 429 }: `entry` is dropped on return.
LimitCheck(r) ==
    /\ req[r].pc = "limit"
    /\ Polling(r)
    /\ IF limit_reached(storage[service_name].count)
       THEN /\ req' = [req EXCEPT ![r] = Returned(r, 429)]
            /\ lockHolders' = lockHolders \ {ReqTask(r)}
            /\ running' = [running EXCEPT ![req[r].worker] = None]
       ELSE /\ req' = [req EXCEPT ![r] = [@ EXCEPT !.pc = "count"]]
            /\ UNCHANGED << lockHolders, running >>
    /\ UNCHANGED << now, cryptoVars, storage, unswept, sweep, admittedIn,
                    lastAdmit, relayVars, canonVars >>

\* *count += 1
Increment(r) ==
    /\ req[r].pc = "count"
    /\ Polling(r)
    /\ LET e == storage[service_name]
       IN /\ storage' = [storage EXCEPT ![service_name] =
                            [count |-> e.count + 1, ts |-> e.ts]]
          /\ admittedIn' = [admittedIn EXCEPT ![e.ts] = @ + 1]
          /\ lastAdmit' = Some(now)
          /\ unswept' = [unswept EXCEPT ![service_name].count =
                            IF limit_reached(@) THEN @ ELSE @ + 1]
    /\ req' = [req EXCEPT ![r] = [@ EXCEPT !.pc = "call"]]
    /\ UNCHANGED << now, cryptoVars, lockHolders, running, sweep, relayVars,
                    canonVars >>

\* service.call(req): downstream handling is invoked.
DownstreamCall(r) ==
    /\ req[r].pc = "call"
    /\ Polling(r)
    /\ req' = [req EXCEPT ![r] = [@ EXCEPT !.pc = "downstream", !.calls = @ + 1]]
    /\ UNCHANGED << now, cryptoVars, filterVars, relayVars, canonVars >>

\* .await: downstream handling waits for the outbound call; the future is
\* suspended with `entry` alive, and the worker polls other tasks.
DownstreamSuspend(r) ==
    /\ req[r].pc = "downstream"
    /\ Polling(r)
    /\ req' = [req EXCEPT ![r] = [@ EXCEPT !.pc = "awaiting"]]
    /\ running' = [running EXCEPT ![req[r].worker] = None]
    /\ UNCHANGED << now, cryptoVars, storage, unswept, lockHolders, sweep,
                    admittedIn, lastAdmit, relayVars, canonVars >>

\* Downstream handling returns its response, in the poll that called it or
\* in a later poll of the worker: Ok(res.map_into_boxed_body()), and
\* `entry` is dropped at the end of the block.
DownstreamReturn(r) ==
    /\ \/ req[r].pc = "downstream" /\ Polling(r)
       \/ req[r].pc = "awaiting" /\ WorkerFree(req[r].worker)
    /\ req' = [req EXCEPT ![r] = Returned(r, 200)]
    /\ lockHolders' = lockHolders \ {ReqTask(r)}
    /\ running' = [running EXCEPT ![req[r].worker] = None]
    /\ UNCHANGED << now, cryptoVars, storage, unswept, sweep, admittedIn,
                    lastAdmit, relayVars, canonVars >>

(***************************************************************************)
(* The cleanup task of start_cleanup_task, one per worker.                 *)
(***************************************************************************)
\* interval.tick().await returns; let now = Instant::now().
SweepTick(w) ==
    /\ server = "serving"
    /\ sweep[w].pc = "sleep"
    /\ WorkerFree(w)
    /\ sweep' = [sweep EXCEPT ![w] = [pc |-> "retain", clock |-> now]]
    /\ running' = [running EXCEPT ![w] = Some(SweepTask(w))]
    /\ UNCHANGED << now, cryptoVars, storage, unswept, lockHolders,
                    admittedIn, lastAdmit, req, relayVars, canonVars >>

\* storage.retain(..): the thread waits for the shard's write lock, drops
\* the entries whose timestamp is `window` old, and awaits the next tick.
SweepRetain(w) ==
    /\ sweep[w].pc = "retain"
    /\ retain_can_lock(lockHolders)
    /\ storage' = retain(storage, sweep[w].clock)
    /\ UNCHANGED unswept
    /\ sweep' = [sweep EXCEPT ![w] = [pc |-> "sleep", clock |-> 0]]
    /\ running' = [running EXCEPT ![w] = None]
    /\ UNCHANGED << now, cryptoVars, lockHolders, admittedIn, lastAdmit, req,
                    relayVars, canonVars >>

\* Time passes.
Tick ==
    /\ Alive
    /\ now < MaxTime
    /\ now' = now + 1
    /\ UNCHANGED << cryptoVars, filterVars, req, relayVars, canonVars >>

(***************************************************************************)
(* The relay operations: send_authorization_request, send_payment_request  *)
(* and send_status_request, which differ in the URL only.                  *)
(***************************************************************************)
NewCall ==
    [pc |-> "new", payload |-> None, service |-> None, envelope |-> None,
     sawNone |-> FALSE, result |-> "none", sent |-> 0]

\* A relay operation is called with a request body.
RelayCall(c) ==
    /\ Alive
    /\ op[c].pc = "new"
    /\ \A d \in Calls : d < c => op[d].pc # "new"
    /\ \E p \in Payloads :
          op' = [op EXCEPT ![c] = [@ EXCEPT !.pc = "get", !.payload = Some(p)]]
    /\ UNCHANGED << now, cryptoVars, filterVars, req, outbound, canonVars >>

\* let crypto_service = get_crypto_service()?;
RelayGet(c) ==
    /\ Alive
    /\ op[c].pc = "get"
    /\ LET got == get_crypto_service(CRYPTO_SERVICE)
       IN op' = [op EXCEPT ![c] =
                    IF got.ok
                    THEN [@ EXCEPT !.pc = "sign", !.service = got.val,
                                   !.sawNone = IsNone(CRYPTO_SERVICE)]
                    ELSE [@ EXCEPT !.pc = "done", !.result = got.err,
                                   !.payload = None,
                                   !.sawNone = IsNone(CRYPTO_SERVICE)]]
    /\ UNCHANGED << now, cryptoVars, filterVars, req, outbound, canonVars >>

\* crypto_service.create_signed_payload(&request_value)?: the signer may
\* reject the key or the data.
RelaySign(c) ==
    /\ Alive
    /\ op[c].pc = "sign"
    /\ \E accepted \in BOOLEAN :
          op' = [op EXCEPT ![c] =
                    IF accepted
                    THEN [@ EXCEPT !.pc = "send",
                                   !.envelope =
                                       Some(create_signed_payload(
                                                Unwrap(op[c].service),
                                                Unwrap(op[c].payload), now))]
                    ELSE [@ EXCEPT !.pc = "done", !.result = "SigningError",
                                   !.payload = None, !.service = None]]
    /\ UNCHANGED << now, cryptoVars, filterVars, req, outbound, canonVars >>

\* client.post(URL).json(&signed_payload).send().await: the envelope goes
\* out and the operation waits for the processor's answer.
RelaySend(c) ==
    /\ Alive
    /\ op[c].pc = "send"
    /\ outbound' = outbound \cup {Unwrap(op[c].envelope)}
    /\ op' = [op EXCEPT ![c] = [@ EXCEPT !.pc = "awaiting", !.sent = @ + 1]]
    /\ UNCHANGED << now, cryptoVars, filterVars, req, canonVars >>

\* The processor answers, or the transport fails.
RelayResponse(c) ==
    /\ Alive
    /\ op[c].pc = "awaiting"
    /\ \E answered \in BOOLEAN :
          op' = [op EXCEPT ![c] =
                    [@ EXCEPT !.pc = "done", !.payload = None,
                              !.service = None, !.envelope = None,
                              !.result = IF answered THEN "Ok"
                                         ELSE "HttpRequestError"]]
    /\ UNCHANGED << now, cryptoVars, filterVars, req, outbound, canonVars >>

(***************************************************************************)
(* The filter of a serving process: main() has initialized the signing     *)
(* identity and started the server, whose workers have built the filter    *)
(* and spawned the cleanup tasks.                                          *)
(***************************************************************************)
InitFilterState ==
    /\ storage = << >>
    /\ unswept = << >>
    /\ lockHolders = {}
    /\ running = [w \in Workers |-> None]
    /\ req = [r \in Requests |-> NewRequest]
    /\ sweep = [w \in Workers |-> [pc |-> "sleep", clock |-> 0]]
    /\ admittedIn = [t \in 0..MaxTime |-> 0]
    /\ lastAdmit = None

InitRelayState ==
    /\ op = [c \in Calls |-> NewCall]
    /\ outbound = {}

InitCanonIdle ==
    /\ canonIn = JNull
    /\ canonAlt = JNull
    /\ canonOut = None

Init ==
    /\ now = 0
    /\ INIT = "done"
    /\ CRYPTO_SERVICE = CryptoServiceNew(GoodBundle(1, 1)).val
    /\ ith = [t \in Threads |->
                 IF t = Main
                 THEN [IdleThread EXCEPT !.calls = 1, !.result = "Ok",
                                         !.initialized = TRUE,
                                         !.ranClosure = TRUE]
                 ELSE IdleThread]
    /\ attempts = 1
    /\ failed = FALSE
    /\ server = "serving"
    /\ InitFilterState
    /\ InitRelayState
    /\ InitCanonIdle

Filter ==
    \E r \in Requests :
        \/ Extract(r)
        \/ Validate(r)
        \/ LockEntry(r)
        \/ WindowCheck(r)
        \/ LimitCheck(r)
        \/ Increment(r)
        \/ DownstreamCall(r)
        \/ DownstreamSuspend(r)
        \/ DownstreamReturn(r)

Sweep ==
    \E w \in Workers :
        \/ SweepTick(w)
        \/ SweepRetain(w)

Next ==
    \/ Filter
    \/ Sweep
    \/ Tick

Spec == Init /\ [][Next]_vars

(***************************************************************************)
(* The filter and the sweep later in the life of the server: a request of  *)
(* the identity was let through at time 0 and has returned.                *)
(***************************************************************************)
InitSweep ==
    /\ now = 0
    /\ INIT = "done"
    /\ CRYPTO_SERVICE = CryptoServiceNew(GoodBundle(1, 1)).val
    /\ ith = [t \in Threads |->
                 IF t = Main
                 THEN [IdleThread EXCEPT !.calls = 1, !.result = "Ok",
                                         !.initialized = TRUE,
                                         !.ranClosure = TRUE]
                 ELSE IdleThread]
    /\ attempts = 1
    /\ failed = FALSE
    /\ server = "serving"
    /\ storage = (service_name :> [count |-> 1, ts |-> 0])
    /\ unswept = storage
    /\ lockHolders = {}
    /\ running = [w \in Workers |-> None]
    /\ req = [r \in Requests |-> NewRequest]
    /\ sweep = [w \in Workers |-> [pc |-> "sleep", clock |-> 0]]
    /\ admittedIn = [t \in 0..MaxTime |-> IF t = 0 THEN 1 ELSE 0]
    /\ lastAdmit = Some(0)
    /\ InitRelayState
    /\ InitCanonIdle

SpecSweep == InitSweep /\ [][Next]_vars

(***************************************************************************)
(* crypto.rs and the relay operations from the start of the process: main  *)
(* and other threads call init() and the relay operations in any order.    *)
(***************************************************************************)
InitCrypto ==
    /\ now = 0
    /\ INIT = "new"
    /\ CRYPTO_SERVICE = None
    /\ ith = [t \in Threads |-> IdleThread]
    /\ attempts = 0
    /\ failed = FALSE
    /\ server = "boot"
    /\ InitFilterState
    /\ InitRelayState
    /\ InitCanonIdle

AnyInit ==
    \E t \in Threads :
        \/ InitCall(t)
        \/ CallOnce(t)
        \/ ClosureNew(t)
        \/ ClosureStore(t)
        \/ InitReturn(t)

Relay ==
    \E c \in Calls :
        \/ RelayCall(c)
        \/ RelayGet(c)
        \/ RelaySign(c)
        \/ RelaySend(c)
        \/ RelayResponse(c)

NextCrypto ==
    \/ AnyInit
    \/ MainStart
    \/ Relay
    \/ Tick

SpecCrypto == InitCrypto /\ [][NextCrypto]_vars

(***************************************************************************)
(* The canonicalizer on its own: canonize_json applied to a value and to   *)
(* the same value with the keys of its objects in another order.           *)
(***************************************************************************)
\* Sequences of at most n elements of S.
SeqsUpTo(S, n) == UNION { [1..k -> S] : k \in 0..n }

DistinctKeys(kv) ==
    \A i, j \in 1..Len(kv) : i # j => kv[i][1] # kv[j][1]

ObjectsOver(K, V, n) ==
    { JObj(kv) : kv \in { f \in SeqsUpTo(K \X V, n) : DistinctKeys(f) } }

ArraysOver(V, n) == { JArr(items) : items \in SeqsUpTo(V, n) }

\* "B" < "a" < "aa" < "b" in byte order.
KeyB == << 66 >>
Keya == << 97 >>
Keyaa == << 97, 97 >>
Keyb == << 98 >>

Leaves == { JNull, JNum(7), JStr(<< 120 >>) }
FlatValues ==
    ObjectsOver({KeyB, Keya, Keyaa}, Leaves, MaxWidth)
        \cup ArraysOver(Leaves, MaxWidth)
SmallValues ==
    ObjectsOver({KeyB, Keya}, {JNull, JNum(7)}, MaxWidth)
        \cup ArraysOver({JNull, JNum(7)}, 1)
NestedValues ==
    ObjectsOver({Keyb, Keya}, SmallValues \cup {JNum(7)}, MaxWidth)
        \cup ArraysOver(SmallValues, MaxWidth)
DeepValues ==
    { JObj(<< << Keya, v >> >>) : v \in NestedValues }
        \cup { JArr(<< v >>) : v \in NestedValues }
CanonInputs == Leaves \cup FlatValues \cup NestedValues \cup DeepValues

\* The values that hold the same pairs as v with the keys of every object,
\* at every depth, in any order; arrays keep their order.
RECURSIVE Shuffles(_)
Shuffles(v) ==
    CASE v.t = "obj" ->
            LET n == Len(v.kv)
                sh == [i \in 1..n |-> Shuffles(v.kv[i][2])]
                all == UNION { sh[i] : i \in 1..n }
                picks == { c \in [1..n -> all] : \A i \in 1..n : c[i] \in sh[i] }
            IN { JObj([i \in 1..n |-> << v.kv[p[i]][1], c[p[i]] >>]) :
                    p \in Permutations(1..n), c \in picks }
      [] v.t = "arr" ->
            LET n == Len(v.items)
                sh == [i \in 1..n |-> Shuffles(v.items[i])]
                all == UNION { sh[i] : i \in 1..n }
                picks == { c \in [1..n -> all] : \A i \in 1..n : c[i] \in sh[i] }
            IN { JArr(c) : c \in picks }
      [] OTHER -> {v}

\* The objects inside v, v included.
RECURSIVE ObjectsIn(_)
ObjectsIn(v) ==
    CASE v.t = "obj" ->
            {v} \cup UNION { ObjectsIn(v.kv[i][2]) : i \in 1..Len(v.kv) }
      [] v.t = "arr" -> UNION { ObjectsIn(v.items[i]) : i \in 1..Len(v.items) }
      [] OTHER -> {}

\* canonize_json is applied to the value and to a reordering of it.
Canonicalize ==
    /\ IsNone(canonOut)
    /\ \E alt \in Shuffles(canonIn) :
          /\ canonAlt' = alt
          /\ canonOut' = Some(<< canonize_json(canonIn), canonize_json(alt) >>)
    /\ UNCHANGED << now, cryptoVars, filterVars, req, relayVars, canonIn >>

InitCanon ==
    /\ now = 0
    /\ INIT = "new"
    /\ CRYPTO_SERVICE = None
    /\ ith = [t \in Threads |-> IdleThread]
    /\ attempts = 0
    /\ failed = FALSE
    /\ server = "boot"
    /\ InitFilterState
    /\ InitRelayState
    /\ canonIn \in CanonInputs
    /\ canonAlt = canonIn
    /\ canonOut = None

NextCanon == Canonicalize

SpecCanon == InitCanon /\ [][NextCanon]_vars

(***************************************************************************)
(* sign_payload on its own: two calls, each with its payload, its identity *)
(* and its reading of the clock.  canonIn and canonAlt hold the payloads,  *)
(* canonOut the two results.                                               *)
(***************************************************************************)
\* The text x","b":"y : a string value holding quotes, a comma and a colon.
QuotedText == << 120, QUOTE, COMMA, QUOTE, 98, QUOTE, COLON, QUOTE, 121 >>

\* Request bodies after clean_nulls: no null is left in them.
SignLeaves == { JStr(<< 120 >>), JStr(<< 121 >>), JStr(QuotedText), JNum(7) }
SignInputs == ObjectsOver({Keya, Keyb}, SignLeaves, MaxWidth)

\* Identities with the same certificate and different keys.
Identities ==
    { Unwrap(CryptoServiceNew(GoodBundle(1, k)).val) : k \in {1, 2} }

\* sign_payload(payload) is called on an identity for each of the two
\* payloads, the second call reading the clock no earlier than the first.
SignTwice ==
    /\ IsNone(canonOut)
    /\ \E s1, s2 \in Identities, later \in now..MaxTime :
          canonOut' =
              Some(<< [service |-> s1, clock |-> now,
                       out |-> sign_payload(s1, canonIn, now)],
                      [service |-> s2, clock |-> later,
                       out |-> sign_payload(s2, canonAlt, later)] >>)
    /\ UNCHANGED << now, cryptoVars, filterVars, req, relayVars, canonIn,
                    canonAlt >>

InitSign ==
    /\ now = 0
    /\ INIT = "new"
    /\ CRYPTO_SERVICE = None
    /\ ith = [t \in Threads |-> IdleThread]
    /\ attempts = 0
    /\ failed = FALSE
    /\ server = "boot"
    /\ InitFilterState
    /\ InitRelayState
    /\ canonIn \in SignInputs
    /\ canonAlt \in SignInputs
    /\ canonOut = None

NextSign == SignTwice

SpecSign == InitSign /\ [][NextSign]_vars

(***************************************************************************)
(* LosslessNumber::format_for_json (common.rs).  An f64 that comes from a  *)
(* decimal text is modelled by that decimal: its integer part and the      *)
(* digits of its fraction.                                                 *)
(***************************************************************************)
SPACE == 32

IsDigit(b) == b >= DIGIT0 /\ b <= DIGIT0 + 9

\* str::trim over the model's alphabet, where the only white space is ' '.
RECURSIVE TrimStart(_)
TrimStart(s) ==
    IF Len(s) > 0 /\ s[1] = SPACE THEN TrimStart(Tail(s)) ELSE s

RECURSIVE TrimEnd(_)
TrimEnd(s) ==
    IF Len(s) > 0 /\ s[Len(s)] = SPACE
    THEN TrimEnd(SubSeq(s, 1, Len(s) - 1)) ELSE s

Trim(s) == TrimEnd(TrimStart(s))

\* str::contains('.') and str::split('.')
Points(s) == { i \in 1..Len(s) : s[i] = POINT }

\* trimmed.parse::<f64>() is Ok, over the model's alphabet of digits, the
\* point and letters: digits with at most one point among them.
ParsesAsF64(s) ==
    /\ \A i \in 1..Len(s) : IsDigit(s[i]) \/ s[i] = POINT
    /\ \E i \in 1..Len(s) : IsDigit(s[i])
    /\ Cardinality(Points(s)) <= 1

\* The number a text of digits writes.
RECURSIVE DigitsValue(_)
DigitsValue(s) ==
    IF Len(s) = 0 THEN 0
    ELSE 10 * DigitsValue(SubSeq(s, 1, Len(s) - 1)) + (s[Len(s)] - DIGIT0)

\* The value parse::<f64>() gives: the integer part and the fraction digits.
ParseDecimal(s) ==
    IF Points(s) = {}
    THEN [int |-> DigitsValue(s), frac |-> << >>]
    ELSE LET p == CHOOSE i \in Points(s) : TRUE
             f == SubSeq(s, p + 1, Len(s))
         IN [int |-> DigitsValue(SubSeq(s, 1, p - 1)),
             frac |-> [i \in 1..Len(f) |-> f[i] - DIGIT0]]

\* num.fract() == 0.0
fract_is_zero(num) == \A i \in 1..Len(num.frac) : num.frac[i] = 0

FracDigit(num, i) == IF i <= Len(num.frac) THEN num.frac[i] ELSE 0

\* The digits after the second are more than half a unit of the second.
\* (When they are exactly half, the binary neighbour of the decimal decides;
\* the amounts of the model leave that case out.)
AboveHalf(num) ==
    \/ FracDigit(num, 3) > 5
    \/ /\ FracDigit(num, 3) = 5
       /\ \E i \in 4..Len(num.frac) : num.frac[i] # 0

\* format!("{:.1}", num) of a number without fraction.
Fixed1(num) == Digits(num.int) \o << POINT, DIGIT0 >>

\* The number cut after its second decimal digit.
Fixed2Truncating(num) ==
    Digits(num.int) \o << POINT, DIGIT0 + FracDigit(num, 1),
                          DIGIT0 + FracDigit(num, 2) >>

\* format!("{:.2}", num): the nearest number with two decimals.
Fixed2(num) ==
    LET hundredths ==
            100 * num.int + 10 * FracDigit(num, 1) + FracDigit(num, 2)
                + (IF AboveHalf(num) THEN 1 ELSE 0)
    IN Digits(hundredths \div 100)
           \o << POINT, DIGIT0 + ((hundredths \div 10) % 10),
                 DIGIT0 + (hundredths % 10) >>

\* LosslessNumber::format_for_json
format_for_json(text) ==
    LET trimmed == Trim(text)
    IN IF ParsesAsF64(trimmed)
       THEN LET num == ParseDecimal(trimmed)
            IN IF fract_is_zero(num) THEN Fixed1(num) ELSE Fixed2(num)
       ELSE IF Points(trimmed) # {}
            THEN IF Cardinality(Points(trimmed)) = 1
                 THEN LET p == CHOOSE i \in Points(trimmed) : TRUE
                          integer_part == SubSeq(trimmed, 1, p - 1)
                          decimal_part == SubSeq(trimmed, p + 1, Len(trimmed))
                      IN IF Len(decimal_part) = 1
                         THEN integer_part \o << POINT >> \o decimal_part
                                  \o << DIGIT0 >>
                         ELSE IF Len(decimal_part) > 2
                         THEN integer_part \o << POINT >>
                                  \o SubSeq(decimal_part, 1, 2)
                         ELSE trimmed
                 ELSE trimmed
            ELSE trimmed \o << POINT, DIGIT0 >>

\* The amounts given to the formatter: an integer part, then nothing or a
\* point and up to MaxDecimals digits.

\* The digits after the second are exactly half a unit of the second.
IsTie(f) ==
    /\ Len(f) >= 3
    /\ f[3] = DIGIT0 + 5
    /\ \A i \in 4..Len(f) : f[i] = DIGIT0

DecimalAmounts ==
    LET IntegerTexts == { << 48 >>, << 49, 50 >>, << 49, 51, 49 >> }
        DecimalDigits == { 48, 51, 52, 53, 54, 57 }
        FractionTexts ==
            UNION { [1..k -> DecimalDigits] : k \in 1..MaxDecimals }
    IN IntegerTexts
           \cup { i \o << POINT >> \o f :
                     i \in IntegerTexts,
                     f \in { g \in FractionTexts : ~IsTie(g) } }

\* Texts that are no decimal amount, and an amount between spaces.
OtherAmounts ==
    { << 120 >>, << 120, POINT, 51 >>, << 120, POINT, 51, 52, 53, 54 >>,
      << 49, POINT, 50, POINT, 51 >>, << SPACE, 49, 50, POINT, 51, SPACE >> }

AmountTexts == DecimalAmounts \cup OtherAmounts

\* format_for_json is applied to LosslessNumber(text).
FormatAmount ==
    /\ IsNone(canonOut)
    /\ canonOut' = Some(<< format_for_json(canonIn.s) >>)
    /\ UNCHANGED << now, cryptoVars, filterVars, req, relayVars, canonIn,
                    canonAlt >>

InitFormat ==
    /\ now = 0
    /\ INIT = "new"
    /\ CRYPTO_SERVICE = None
    /\ ith = [t \in Threads |-> IdleThread]
    /\ attempts = 0
    /\ failed = FALSE
    /\ server = "boot"
    /\ InitFilterState
    /\ InitRelayState
    /\ canonIn \in { JStr(t) : t \in AmountTexts }
    /\ canonAlt = canonIn
    /\ canonOut = None

NextFormat == FormatAmount

SpecFormat == InitFormat /\ [][NextFormat]_vars

(***************************************************************************)
(* A relayed request with monetary fields: json!(request), clean_nulls     *)
(* (plexo_service.rs) and the canonical string that sign_payload signs.    *)
(***************************************************************************)
AmountKey == << 65, 109, 111, 117, 110, 116 >>
LoyaltyProgramAmountKey ==
    << 76, 111, 121, 97, 108, 116, 121, 80, 114, 111, 103, 114, 97, 109,
       65, 109, 111, 117, 110, 116 >>
ItemsKey == << 73, 116, 101, 109, 115 >>
ClientItemReferenceIdKey ==
    << 67, 108, 105, 101, 110, 116, 73, 116, 101, 109, 82, 101, 102, 101,
       114, 101, 110, 99, 101, 73, 100 >>

\* "BilledAmount" | "TaxedAmount" | "VATAmount" | "Amount" |
\* "LoyaltyProgramAmount"
is_lossless_number_field(field_name) ==
    field_name \in
        { << 66, 105, 108, 108, 101, 100, 65, 109, 111, 117, 110, 116 >>,
          << 84, 97, 120, 101, 100, 65, 109, 111, 117, 110, 116 >>,
          << 86, 65, 84, 65, 109, 111, 117, 110, 116 >>,
          AmountKey, LoyaltyProgramAmountKey }

\* The digits of a fraction without its trailing zeros.
RECURSIVE DropTrailingZeros(_)
DropTrailingZeros(f) ==
    IF Len(f) > 0 /\ f[Len(f)] = 0
    THEN DropTrailingZeros(SubSeq(f, 1, Len(f) - 1)) ELSE f

\* json!(num) of formatted.parse::<f64>()
NumberOfText(formatted) ==
    LET num == ParseDecimal(formatted)
    IN JF64(num.int, DropTrailingZeros(num.frac))

\* clean_nulls
RECURSIVE clean_nulls(_)
clean_nulls(value) ==
    CASE value.t = "obj" ->
            LET kept == SelectSeq(value.kv, LAMBDA p : ~is_null(p[2]))
                Field(key, v) ==
                    IF is_lossless_number_field(key) /\ v.t = "str"
                    THEN LET formatted == format_for_json(v.s)
                         IN IF ParsesAsF64(formatted)
                            THEN NumberOfText(formatted) ELSE v
                    ELSE v
            IN JObj([i \in 1..Len(kept) |->
                        << kept[i][1],
                           clean_nulls(Field(kept[i][1], kept[i][2])) >>])
      [] value.t = "arr" ->
            LET kept == SelectSeq(value.items, LAMBDA x : ~is_null(x))
            IN JArr([i \in 1..Len(kept) |-> clean_nulls(kept[i])])
      [] OTHER -> value

\* LosslessNumber's Serialize: serialize_str(&self.format_for_json())
SerializeLossless(text) == JStr(format_for_json(text))

\* json!(request) of a payment with one item and its optional loyalty
\* amount; an Option that is None is written as null.
RequestValue(amount, loyalty) ==
    JObj(<< << ItemsKey,
               JArr(<< JObj(<< << AmountKey, SerializeLossless(amount) >>,
                               << ClientItemReferenceIdKey,
                                  JStr(<< 120 >>) >> >>) >>) >>,
            << LoyaltyProgramAmountKey,
               IF IsSome(loyalty) THEN SerializeLossless(Unwrap(loyalty))
               ELSE JNull >> >>)

LoyaltyAmounts ==
    { None, Some(<< 53 >>), Some(<< 48, POINT, 53 >>),
      Some(<< 49, 50, POINT, 51, 52, 53, 54 >>) }

\* The relay operation up to the signing: the request becomes a value, the
\* value is cleaned, and sign_payload signs its canonical string.  canonIn
\* holds the amount of the item, canonAlt the Option of the loyalty amount.
RelayAmounts ==
    /\ IsNone(canonOut)
    /\ LET request_value == clean_nulls(RequestValue(canonIn.s, canonAlt))
       IN \E s \in Identities :
             canonOut' =
                 Some(<< request_value,
                         sign_payload(s, request_value, now).signature[2] >>)
    /\ UNCHANGED << now, cryptoVars, filterVars, req, relayVars, canonIn,
                    canonAlt >>

InitAmount ==
    /\ now = 0
    /\ INIT = "new"
    /\ CRYPTO_SERVICE = None
    /\ ith = [t \in Threads |-> IdleThread]
    /\ attempts = 0
    /\ failed = FALSE
    /\ server = "boot"
    /\ InitFilterState
    /\ InitRelayState
    /\ canonIn \in { JStr(t) : t \in AmountTexts }
    /\ canonAlt \in LoyaltyAmounts
    /\ canonOut = None

NextAmount == RelayAmounts

SpecAmount == InitAmount /\ [][NextAmount]_vars

(***************************************************************************)
(* Helpers of the properties.                                              *)
(***************************************************************************)
HasEntry == service_name \in DOMAIN storage
TheEntry == storage[service_name]

\* Request r has been let through by the rate limiter and its filter future
\* has not returned yet.
PastLimit(r) == req[r].pc \in {"call", "downstream", "awaiting"}

\* The thread of worker w is waiting for the shard's write lock, inside
\* entry() or retain().
WaitingForLock(w) ==
    \/ \E q \in Requests :
          /\ running[w] = Some(ReqTask(q))
          /\ req[q].pc = "entry"
          /\ ~can_lock(lockHolders)
    \/ /\ running[w] = Some(SweepTask(w))
       /\ sweep[w].pc = "retain"
       /\ ~retain_can_lock(lockHolders)

\* Worker w waits for a lock that only a future suspended on w can release.
StuckWorker(w) ==
    /\ WaitingForLock(w)
    /\ \E r \in Requests :
          /\ req[r].pc = "awaiting"
          /\ req[r].worker = w
          /\ lockHolders = {ReqTask(r)}

CompleteIdentity(stored) ==
    /\ IsSome(Unwrap(stored).private_key)
    /\ IsSome(Unwrap(stored).fingerprint)
    /\ Len(Unwrap(Unwrap(stored).fingerprint)) > 0

\* The envelope is what sign produces from the stored identity.
SignedByStored(e) ==
    /\ IsSome(CRYPTO_SERVICE)
    /\ e.Fingerprint = Unwrap(Unwrap(CRYPTO_SERVICE).fingerprint)
    /\ e.Signature =
          RsaSha512(Unwrap(CRYPTO_SERVICE).private_key,
                    canonize_json(object_to_sign(e.Fingerprint, e.Object,
                                                 e.UTCUnixTimeExpiration)))

\* Reads a canonical string whose texts hold no quote: every key (a quoted
\* text followed by a colon) must be greater, in byte order, than the key
\* before it in the same object.  `open` holds, for every container that
\* is open, the Option of the last key seen in it.
RECURSIVE KeysAscendIn(_, _, _)
KeysAscendIn(s, i, open) ==
    IF i > Len(s) THEN TRUE
    ELSE IF s[i] = LBRACE \/ s[i] = LBRACKET
         THEN KeysAscendIn(s, i + 1, Append(open, None))
    ELSE IF s[i] = RBRACE \/ s[i] = RBRACKET
         THEN KeysAscendIn(s, i + 1, SubSeq(open, 1, Len(open) - 1))
    ELSE IF s[i] = QUOTE
         THEN LET j == CHOOSE j \in (i + 1)..Len(s) :
                          /\ s[j] = QUOTE
                          /\ \A k \in (i + 1)..(j - 1) : s[k] # QUOTE
                  text == SubSeq(s, i + 1, j - 1)
              IN IF j < Len(s) /\ s[j + 1] = COLON
                 THEN /\ IsSome(open[Len(open)]) =>
                            LexLess(Unwrap(open[Len(open)]), text)
                      /\ KeysAscendIn(s, j + 2,
                                      [open EXCEPT ![Len(open)] = Some(text)])
                 ELSE KeysAscendIn(s, j + 1, open)
    ELSE KeysAscendIn(s, i + 1, open)

(***************************************************************************)
(* The properties.                                                         *)
(***************************************************************************)

\* C1: the rate-limit step is atomic per identity.  In every step of every
\* interleaving of requests and sweep passes, no window start has more than
\* max_requests requests let through, the count of the entry is the number
\* let through since its window start (no update is lost), and a request
\* whose limit check runs when max_requests were already let through in
\* the entry's window is rejected with 429, any other goes on.
C1_AtMostMaxPerWindow ==
    [][ /\ \A t \in 0..MaxTime : admittedIn'[t] <= max_requests
        /\ HasEntry' => TheEntry'.count = admittedIn'[TheEntry'.ts]
        /\ \A r \in Requests :
              (req[r].pc = "limit" /\ req'[r].pc # "limit") =>
                  IF admittedIn[TheEntry.ts] >= max_requests
                  THEN req'[r].pc = "done" /\ req'[r].status = 429
                  ELSE req'[r].pc = "count" ]_vars

\* C1 witness: a request was rejected with 429 inside a window in which
\* max_requests requests were let through, one of them still in flight.
C1_Witness ==
    /\ HasEntry
    /\ admittedIn[TheEntry.ts] = max_requests
    /\ duration_since(now, TheEntry.ts) < window
    /\ \E r, q \in Requests : req[r].status = 429 /\ req[q].status = 200

\* C2: the filter fails closed.  Downstream handling is invoked at most
\* once per request, and only for a request whose header is present, is
\* text and equals the shared secret byte for byte and whose count was
\* below max_requests at its limit check; a request answered 401, 400, 403
\* or 429 never reached downstream handling; a request in, or back from,
\* downstream handling reached it exactly once.
C2_FailsClosed ==
    \A r \in Requests :
        /\ req[r].calls <= 1
        /\ req[r].calls = 1 =>
              /\ IsSome(req[r].header)
              /\ to_str_ok(Unwrap(req[r].header))
              /\ Unwrap(req[r].header) = service_key
        /\ req[r].status \in {401, 400, 403, 429} => req[r].calls = 0
        /\ (req[r].pc \in {"downstream", "awaiting"} \/ req[r].status = 200) =>
              req[r].calls = 1
        /\ PastLimit(r) =>
              /\ HasEntry
              /\ TheEntry.count >= 1
              /\ TheEntry.count <= max_requests

\* C2 witness: one request is back from downstream handling, one is
\* suspended in it, and one was rejected with 403.
C2_Witness ==
    \E r, q, p \in Requests :
        /\ req[r].status = 200 /\ req[r].calls = 1
        /\ req[q].pc = "awaiting" /\ req[q].calls = 1
        /\ req[p].status = 403 /\ req[p].calls = 0

\* C3: the rejection code is that of the first failing check.  A request
\* without the header is answered 401; one whose header is not text is
\* answered 400; one whose header is text and differs from the secret (a
\* proper prefix of it, an extension of it, a value sharing a prefix with
\* it) is answered 403; and no other request is answered 401, 400 or 403.
C3_FirstFailingCheck ==
    \A r \in Requests :
        req[r].pc = "done" =>
            /\ (req[r].status = 401) <=> IsNone(req[r].header)
            /\ (req[r].status = 400) <=>
                  (IsSome(req[r].header) /\ ~to_str_ok(Unwrap(req[r].header)))
            /\ (req[r].status = 403) <=>
                  /\ IsSome(req[r].header)
                  /\ to_str_ok(Unwrap(req[r].header))
                  /\ Unwrap(req[r].header) # service_key

\* C3 witness: a proper prefix of the secret and an extension of it were
\* both answered 403, and bytes that are not text were answered 400.
C3_Witness ==
    \E r, q, p \in Requests :
        /\ req[r].header = Some(<< 65, 66 >>) /\ req[r].status = 403
        /\ req[q].header = Some(<< 65, 66, 67, 68 >>) /\ req[q].status = 403
        /\ req[p].header = Some(<< 65, 200, 67 >>) /\ req[p].status = 400

\* C4: a request whose window check runs when `window` or more has elapsed
\* since the entry's timestamp sets the entry to (0, now); such a request
\* passes the limit check and leaves the count at 1.
C4_WindowReset ==
    [][ \A r \in Requests :
           /\ (/\ req[r].pc = "window"
               /\ req'[r].pc = "limit"
               /\ now - TheEntry.ts >= window) =>
                  /\ TheEntry' = [count |-> 0, ts |-> now]
                  /\ req'[r].reset
           /\ (req[r].reset /\ req[r].pc = "limit" /\ req'[r].pc # "limit") =>
                  req'[r].pc = "count"
           /\ (req[r].reset /\ req[r].pc = "count" /\ req'[r].pc # "count") =>
                  /\ req'[r].pc = "call"
                  /\ TheEntry'.count = 1 ]_vars

\* C4 witness: a request was let through after a reset, leaving the count
\* at 1, when max_requests had been let through in the window before.
C4_Witness ==
    \E r \in Requests :
        /\ req[r].reset
        /\ PastLimit(r)
        /\ TheEntry.count = 1
        /\ \E t \in 0..MaxTime : t < TheEntry.ts /\ admittedIn[t] = max_requests

\* C5: no worker ever waits for the counter's lock forever: there is no
\* state in which a worker's thread waits for the lock while the lock is
\* held by a request suspended in downstream handling on that same worker.
C5_NobodyWaitsForever ==
    \A w \in Workers : ~StuckWorker(w)

\* C6: a relay operation that finds no signing identity stored ends with
\* InitializationError and posts nothing; every envelope posted carries
\* the fingerprint of the stored identity and a signature made with its
\* key over the envelope's canonical string.
C6_NoUnsignedRelay ==
    /\ \A c \in Calls :
          (op[c].sawNone /\ op[c].pc # "get") =>
              /\ op[c].pc = "done"
              /\ op[c].result = "InitializationError"
              /\ op[c].sent = 0
    /\ \A c \in Calls : op[c].pc = "awaiting" => op[c].sent = 1
    /\ \A e \in outbound : SignedByStored(e)

\* C6 witness: one relay operation ran before the identity was stored and
\* failed, another ran after and posted its envelope.
C6_Witness ==
    \E c, d \in Calls :
        /\ op[c].sawNone /\ op[c].result = "InitializationError"
        /\ op[d].sent = 1
        /\ outbound # {}

\* C7: the loading closure runs at most once, and a call of init() that
\* starts when the identity is already stored returns Ok.
C7_InitIdempotent ==
    /\ attempts <= 1
    /\ \A t \in Threads :
          (ith[t].afterSuccess /\ ith[t].pc = "idle" /\ ith[t].result # "none") =>
              ith[t].result = "Ok"

\* C8: once the loading attempt has failed, the identity stays absent, no
\* further attempt is made, every call of init() that has returned has
\* returned InitializationError, and the server is not serving.
C8_FailedInitIsFinal ==
    failed =>
        /\ IsNone(CRYPTO_SERVICE)
        /\ attempts = 1
        /\ server # "serving"
        /\ \A t \in Threads :
              (ith[t].pc = "idle" /\ ith[t].result # "none") =>
                  ith[t].result = "InitializationError"

\* C8 witness: the attempt failed, a later call of init() by another
\* thread returned, and main() ended without serving.
C8_Witness ==
    /\ failed
    /\ server = "crashed"
    /\ ith[Main].result = "InitializationError"
    /\ \E t \in AuxThreads :
          ith[t].calls = MaxInitCalls /\ ith[t].result = "InitializationError"

\* C9: the stored identity, when present, has both its private key and its
\* fingerprint; once present it never changes; all envelopes posted carry
\* the same fingerprint.
C9_IdentityStable ==
    [][ /\ IsSome(CRYPTO_SERVICE') => CompleteIdentity(CRYPTO_SERVICE')
        /\ IsSome(CRYPTO_SERVICE) => CRYPTO_SERVICE' = CRYPTO_SERVICE
        /\ \A e, f \in outbound' : e.Fingerprint = f.Fingerprint ]_vars

\* C9 witness: two different envelopes were posted under the stored
\* identity.
C9_Witness ==
    /\ IsSome(CRYPTO_SERVICE)
    /\ \E e, f \in outbound :
          /\ e # f
          /\ e.UTCUnixTimeExpiration # f.UTCUnixTimeExpiration
          /\ e.Fingerprint = f.Fingerprint

\* C10: a value and the same value with the keys of its objects, at every
\* depth, in another order have the same canonical string, in which the
\* keys of every object are in ascending byte order.
C10_KeyOrderIndependent ==
    IsSome(canonOut) =>
        /\ Unwrap(canonOut)[1] = Unwrap(canonOut)[2]
        /\ KeysAscendIn(Unwrap(canonOut)[1], 1, << >>)

\* C10 witness: a value with an object nested in another was canonicalized
\* together with a reordering that differs from it.
C10_Witness ==
    /\ IsSome(canonOut)
    /\ canonIn \in DeepValues
    /\ canonAlt # canonIn
    /\ Cardinality(ObjectsIn(canonIn)) >= 3
    /\ Unwrap(canonOut)[1] = Unwrap(canonOut)[2]

\* The text s holds the text sub somewhere.
HasToken(s, sub) ==
    \E i \in 1..(Len(s) - Len(sub) + 1) : SubSeq(s, i, i + Len(sub) - 1) = sub

\* The value with every null-valued key and every null element left out, at
\* every depth; what is left keeps its order.
RECURSIVE StripNulls(_)
StripNulls(v) ==
    CASE v.t = "obj" ->
            LET kept == SelectSeq(v.kv, LAMBDA p : ~is_null(p[2]))
            IN JObj([i \in 1..Len(kept) |->
                        << kept[i][1], StripNulls(kept[i][2]) >>])
      [] v.t = "arr" ->
            LET kept == SelectSeq(v.items, LAMBDA x : ~is_null(x))
            IN JArr([i \in 1..Len(kept) |-> StripNulls(kept[i])])
      [] OTHER -> v

\* C11: the canonical string of an object or an array never holds the
\* token null, and is the canonical string of the value with every null
\* key and every null element left out, whatever the depth: also in an
\* array that is the whole value and in an array inside an array.
C11_NullsDropped ==
    (IsSome(canonOut) /\ canonIn.t \in {"obj", "arr"}) =>
        /\ ~HasToken(Unwrap(canonOut)[1], NullText)
        /\ Unwrap(canonOut)[1] = canonize_json(StripNulls(canonIn))

\* C12: a call of sign that succeeds returns an envelope whose expiration
\* is the clock at the call plus 300 seconds, whose Object is the payload
\* given, whose Fingerprint is that of the identity used, and whose
\* Signature is made with that identity's key over the canonical string of
\* exactly these three values.
C12_EnvelopeIsWhatWasSigned ==
    [][ \A c \in Calls :
           (op[c].pc = "sign" /\ op'[c].pc = "send") =>
               LET e == Unwrap(op'[c].envelope)
                   service == Unwrap(op[c].service)
               IN /\ e.UTCUnixTimeExpiration = now + 300
                  /\ e.Object = Unwrap(op[c].payload)
                  /\ e.Fingerprint = Unwrap(service.fingerprint)
                  /\ e.Signature =
                        RsaSha512(service.private_key,
                                  canonize_json(
                                      object_to_sign(e.Fingerprint, e.Object,
                                                     e.UTCUnixTimeExpiration)))
      ]_vars

\* C12 witness: an envelope signed after the clock had advanced waits to be
\* posted, while an envelope signed at an earlier time is already out.
C12_Witness ==
    \E c \in Calls :
        /\ op[c].pc = "send"
        /\ Unwrap(op[c].envelope).UTCUnixTimeExpiration = now + 300
        /\ now > 0
        /\ \E f \in outbound :
              f.UTCUnixTimeExpiration < Unwrap(op[c].envelope).UTCUnixTimeExpiration

\* C13: two calls of sign give the same signature only when they were made
\* with the same payload (the same pairs, in any key order), the same key
\* and the same expiration; string values holding quotes, commas and colons
\* included.
C13_SignatureInjective ==
    IsSome(canonOut) =>
        LET a == Unwrap(canonOut)[1]
            b == Unwrap(canonOut)[2]
        IN a.out.signature = b.out.signature =>
              /\ canonAlt \in Shuffles(canonIn)
              /\ a.service.private_key = b.service.private_key
              /\ a.out.expiration = b.out.expiration

\* C14: the formatter's output for a decimal amount is the integer part
\* followed by .0 when the amount is whole, and otherwise the integer part
\* followed by the point and the first two decimal digits of the amount, a
\* missing second digit written as 0 and the digits after the second cut
\* off, not rounded.
C14_TwoDecimalsTruncated ==
    (IsSome(canonOut) /\ canonIn.s \in DecimalAmounts) =>
        LET num == ParseDecimal(canonIn.s)
        IN Unwrap(canonOut)[1] =
              IF fract_is_zero(num) THEN Digits(num.int) \o << POINT, DIGIT0 >>
              ELSE Fixed2Truncating(num)

\* C15: a sweep pass removes the entry only when no request was let through
\* within `window` before the pass read the clock; an entry with a request
\* let through less than `window` before is kept.
C15_SweepKeepsActiveEntry ==
    [][ \A w \in Workers :
           (sweep[w].pc = "retain" /\ sweep'[w].pc = "sleep"
               /\ HasEntry /\ ~HasEntry') =>
               \/ IsNone(lastAdmit)
               \/ sweep[w].clock - Unwrap(lastAdmit) >= window ]_vars

\* C16: the comparison of a presented value of the secret's length makes
\* one byte comparison per byte of the secret, wherever the first
\* mismatching byte is: two such values cost the same work.
C16_ComparisonWorkIsFixed ==
    \A r, q \in Requests :
        (/\ req[r].pc \notin {"new", "validate"}
         /\ req[q].pc \notin {"new", "validate"}
         /\ req[r].status \notin {401, 400}
         /\ req[q].status \notin {401, 400}
         /\ Len(Unwrap(req[r].header)) = Len(service_key)
         /\ Len(Unwrap(req[q].header)) = Len(service_key)) =>
            /\ req[r].work = req[q].work
            /\ req[r].work = Len(service_key)

\* C16 witness: a value differing from the secret in its first byte, one
\* differing in its last byte only and the secret itself were all compared.
C16_Witness ==
    \E r, q, p \in Requests :
        /\ req[r].header = Some(<< 68, 66, 67 >>) /\ req[r].status = 403
        /\ req[q].header = Some(<< 65, 66, 68 >>) /\ req[q].status = 403
        /\ req[p].header = Some(service_key) /\ req[p].status = 200
        /\ req[r].work = req[q].work /\ req[q].work = req[p].work

\* C17: sweep passes never change who is let through: at every limit check
\* the request is rejected with 429 exactly when it would be rejected had
\* no sweep pass ever removed the entry.
C17_SweepChangesNoOutcome ==
    [][ \A r \in Requests :
           (req[r].pc = "limit" /\ req'[r].pc # "limit") =>
               ((req'[r].status = 429) <=>
                    limit_reached(unswept[service_name].count)) ]_vars

\* C18: only a request that is let through consumes quota.  A request is
\* answered 401, 400 or 403 before it reaches the counter map, and none of
\* its steps changes the map; no step of a request that ends in 429, and no
\* step before the count, raises the count; the count is raised only by the
\* step of a request that carries the secret and goes on downstream.
C18_OnlyAdmittedConsumeQuota ==
    [][ \A r \in Requests :
           /\ (req'[r] # req[r] /\ req'[r].status \in {401, 400, 403}) =>
                 /\ req[r].pc \in {"new", "validate"}
                 /\ storage' = storage
           /\ (req'[r] # req[r] /\ req'[r].pc = "validate") =>
                 storage' = storage
           /\ (req'[r] # req[r] /\ req'[r].status = 429) =>
                 storage' = storage
           /\ (req'[r] # req[r] /\ req'[r].pc \in {"window", "limit", "count"}
                 /\ HasEntry) =>
                 TheEntry'.count <= TheEntry.count
           /\ (req'[r] # req[r] /\ HasEntry /\ HasEntry'
                 /\ TheEntry'.count > TheEntry.count) =>
                 /\ req'[r].pc = "call"
                 /\ req[r].header = Some(service_key)
                 /\ TheEntry'.count = TheEntry.count + 1 ]_vars

\* C18 witness: with the count at max_requests, one request was answered
\* 429 and another 403, and a request that was let through is back.
C18_Witness ==
    /\ HasEntry
    /\ TheEntry.count = max_requests
    /\ \E r, q, p \in Requests :
          /\ req[r].status = 429
          /\ req[q].status = 403
          /\ req[p].status = 200

\* The canonical string s holds the key followed by the text, unquoted, as
\* the whole value of the key.
SignedAs(s, key, text) ==
    \/ HasToken(s, << QUOTE >> \o key \o << QUOTE, COLON >> \o text \o << COMMA >>)
    \/ HasToken(s, << QUOTE >> \o key \o << QUOTE, COLON >> \o text \o << RBRACE >>)

\* C19: in the canonical string that is signed, every monetary field of
\* the request is written, unquoted, as the formatter writes the amount
\* supplied: .0 for a whole amount and two decimal digits otherwise.
C19_AmountsSignedAsFormatted ==
    (IsSome(canonOut) /\ canonIn.s \in DecimalAmounts) =>
        /\ SignedAs(Unwrap(canonOut)[2], AmountKey, format_for_json(canonIn.s))
        /\ IsSome(canonAlt) =>
              SignedAs(Unwrap(canonOut)[2], LoyaltyProgramAmountKey,
                       format_for_json(Unwrap(canonAlt)))

=============================================================================
